---- MODULE Spec2Model ----
(***************************************************************************)
(* Model of com_server/api_builtins.py: the Builtins class, which adds the *)
(* /send and /receive resources to a RestApiHandler, and the two resource  *)
(* classes _Sending and _Receiving.                                        *)
(*                                                                         *)
(* Text is a sequence of one-character tokens: a printable ASCII character *)
(* stands for itself, "CR", "LF", "SP", "TAB", "VT" and "FF" for carriage  *)
(* return, newline, space, tab, vertical tab and form feed, and "U+XXXX"   *)
(* for any other character by its code point.  An optional value is a      *)
(* sequence of length 0 (None / not given) or 1.                           *)
(*                                                                         *)
(* request, calls, returned, response and line_out describe the request    *)
(* handled by the last step: the request, the calls its handler made on    *)
(* the connection in order, what the connection gave back, the response    *)
(* (None when the handler raised) and what was put on the serial line.     *)
(***************************************************************************)
EXTENDS Integers, Sequences, FiniteSets, TLC

VARIABLES conn_is_connection, endpoints, built,
          rcv_queue, line_out,
          request, calls, returned, response

vars == <<conn_is_connection, endpoints, built, rcv_queue, line_out,
          request, calls, returned, response>>

(* ------------------------------ bounds -------------------------------- *)

MaxFrags == 2

MaxQueue == 2

(* ------------------------- optional values ---------------------------- *)

None == <<>>

Some(x) == <<x>>

IsNone(o) == Len(o) = 0

Get(o) == o[1]

(* ------------------- raw request values (reqparse) -------------------- *)
(* A value as it arrives in the request: text (query string, form, JSON    *)
(* string), a JSON integer, a JSON number with a fraction (whole part and  *)
(* tenths, both >= 0), or a JSON boolean.                                  *)

Text(s) == [kind |-> "text", text |-> s, int |-> 0, frac |-> 0, bool |-> FALSE]

JInt(n) == [kind |-> "int", text |-> <<>>, int |-> n, frac |-> 0, bool |-> FALSE]

JFloat(whole, tenths) ==
    [kind |-> "float", text |-> <<>>, int |-> whole, frac |-> tenths, bool |-> FALSE]

JBool(b) == [kind |-> "bool", text |-> <<>>, int |-> 0, frac |-> 0, bool |-> b]

\* the characters str.strip() removes (str.isspace): the six ASCII blanks, the
\* separators U+001C..U+001F, and the other Unicode whitespace
Whitespace ==
    {
      "TAB", "LF", "VT", "FF", "CR", "U+001C", "U+001D", "U+001E", "U+001F", "SP",
      "U+0085", "U+00A0", "U+1680", "U+2000", "U+2001", "U+2002", "U+2003",
      "U+2004", "U+2005", "U+2006", "U+2007", "U+2008", "U+2009", "U+200A",
      "U+2028", "U+2029", "U+202F", "U+205F", "U+3000" }

\* the characters int() takes for blanks around a literal: those of str.strip()
\* except the separators U+001C..U+001F
IntWhitespace == Whitespace \ {"U+001C", "U+001D", "U+001E", "U+001F"}

\* the decimal digits int() reads (Unicode category Nd), by value 0..9: entry
\* k + 1 holds the digits of value k
DecimalDigits ==
    <<
      {
        "0", "U+0660", "U+06F0", "U+07C0", "U+0966", "U+09E6", "U+0A66", "U+0AE6",
        "U+0B66", "U+0BE6", "U+0C66", "U+0CE6", "U+0D66", "U+0DE6", "U+0E50",
        "U+0ED0", "U+0F20", "U+1040", "U+1090", "U+17E0", "U+1810", "U+1946",
        "U+19D0", "U+1A80", "U+1A90", "U+1B50", "U+1BB0", "U+1C40", "U+1C50",
        "U+A620", "U+A8D0", "U+A900", "U+A9D0", "U+A9F0", "U+AA50", "U+ABF0",
        "U+FF10", "U+104A0", "U+10D30", "U+11066", "U+110F0", "U+11136", "U+111D0",
        "U+112F0", "U+11450", "U+114D0", "U+11650", "U+116C0", "U+11730", "U+118E0",
        "U+11950", "U+11C50", "U+11D50", "U+11DA0", "U+16A60", "U+16AC0", "U+16B50",
        "U+1D7CE", "U+1D7D8", "U+1D7E2", "U+1D7EC", "U+1D7F6", "U+1E140", "U+1E2F0",
        "U+1E950", "U+1FBF0" },
      {
        "1", "U+0661", "U+06F1", "U+07C1", "U+0967", "U+09E7", "U+0A67", "U+0AE7",
        "U+0B67", "U+0BE7", "U+0C67", "U+0CE7", "U+0D67", "U+0DE7", "U+0E51",
        "U+0ED1", "U+0F21", "U+1041", "U+1091", "U+17E1", "U+1811", "U+1947",
        "U+19D1", "U+1A81", "U+1A91", "U+1B51", "U+1BB1", "U+1C41", "U+1C51",
        "U+A621", "U+A8D1", "U+A901", "U+A9D1", "U+A9F1", "U+AA51", "U+ABF1",
        "U+FF11", "U+104A1", "U+10D31", "U+11067", "U+110F1", "U+11137", "U+111D1",
        "U+112F1", "U+11451", "U+114D1", "U+11651", "U+116C1", "U+11731", "U+118E1",
        "U+11951", "U+11C51", "U+11D51", "U+11DA1", "U+16A61", "U+16AC1", "U+16B51",
        "U+1D7CF", "U+1D7D9", "U+1D7E3", "U+1D7ED", "U+1D7F7", "U+1E141", "U+1E2F1",
        "U+1E951", "U+1FBF1" },
      {
        "2", "U+0662", "U+06F2", "U+07C2", "U+0968", "U+09E8", "U+0A68", "U+0AE8",
        "U+0B68", "U+0BE8", "U+0C68", "U+0CE8", "U+0D68", "U+0DE8", "U+0E52",
        "U+0ED2", "U+0F22", "U+1042", "U+1092", "U+17E2", "U+1812", "U+1948",
        "U+19D2", "U+1A82", "U+1A92", "U+1B52", "U+1BB2", "U+1C42", "U+1C52",
        "U+A622", "U+A8D2", "U+A902", "U+A9D2", "U+A9F2", "U+AA52", "U+ABF2",
        "U+FF12", "U+104A2", "U+10D32", "U+11068", "U+110F2", "U+11138", "U+111D2",
        "U+112F2", "U+11452", "U+114D2", "U+11652", "U+116C2", "U+11732", "U+118E2",
        "U+11952", "U+11C52", "U+11D52", "U+11DA2", "U+16A62", "U+16AC2", "U+16B52",
        "U+1D7D0", "U+1D7DA", "U+1D7E4", "U+1D7EE", "U+1D7F8", "U+1E142", "U+1E2F2",
        "U+1E952", "U+1FBF2" },
      {
        "3", "U+0663", "U+06F3", "U+07C3", "U+0969", "U+09E9", "U+0A69", "U+0AE9",
        "U+0B69", "U+0BE9", "U+0C69", "U+0CE9", "U+0D69", "U+0DE9", "U+0E53",
        "U+0ED3", "U+0F23", "U+1043", "U+1093", "U+17E3", "U+1813", "U+1949",
        "U+19D3", "U+1A83", "U+1A93", "U+1B53", "U+1BB3", "U+1C43", "U+1C53",
        "U+A623", "U+A8D3", "U+A903", "U+A9D3", "U+A9F3", "U+AA53", "U+ABF3",
        "U+FF13", "U+104A3", "U+10D33", "U+11069", "U+110F3", "U+11139", "U+111D3",
        "U+112F3", "U+11453", "U+114D3", "U+11653", "U+116C3", "U+11733", "U+118E3",
        "U+11953", "U+11C53", "U+11D53", "U+11DA3", "U+16A63", "U+16AC3", "U+16B53",
        "U+1D7D1", "U+1D7DB", "U+1D7E5", "U+1D7EF", "U+1D7F9", "U+1E143", "U+1E2F3",
        "U+1E953", "U+1FBF3" },
      {
        "4", "U+0664", "U+06F4", "U+07C4", "U+096A", "U+09EA", "U+0A6A", "U+0AEA",
        "U+0B6A", "U+0BEA", "U+0C6A", "U+0CEA", "U+0D6A", "U+0DEA", "U+0E54",
        "U+0ED4", "U+0F24", "U+1044", "U+1094", "U+17E4", "U+1814", "U+194A",
        "U+19D4", "U+1A84", "U+1A94", "U+1B54", "U+1BB4", "U+1C44", "U+1C54",
        "U+A624", "U+A8D4", "U+A904", "U+A9D4", "U+A9F4", "U+AA54", "U+ABF4",
        "U+FF14", "U+104A4", "U+10D34", "U+1106A", "U+110F4", "U+1113A", "U+111D4",
        "U+112F4", "U+11454", "U+114D4", "U+11654", "U+116C4", "U+11734", "U+118E4",
        "U+11954", "U+11C54", "U+11D54", "U+11DA4", "U+16A64", "U+16AC4", "U+16B54",
        "U+1D7D2", "U+1D7DC", "U+1D7E6", "U+1D7F0", "U+1D7FA", "U+1E144", "U+1E2F4",
        "U+1E954", "U+1FBF4" },
      {
        "5", "U+0665", "U+06F5", "U+07C5", "U+096B", "U+09EB", "U+0A6B", "U+0AEB",
        "U+0B6B", "U+0BEB", "U+0C6B", "U+0CEB", "U+0D6B", "U+0DEB", "U+0E55",
        "U+0ED5", "U+0F25", "U+1045", "U+1095", "U+17E5", "U+1815", "U+194B",
        "U+19D5", "U+1A85", "U+1A95", "U+1B55", "U+1BB5", "U+1C45", "U+1C55",
        "U+A625", "U+A8D5", "U+A905", "U+A9D5", "U+A9F5", "U+AA55", "U+ABF5",
        "U+FF15", "U+104A5", "U+10D35", "U+1106B", "U+110F5", "U+1113B", "U+111D5",
        "U+112F5", "U+11455", "U+114D5", "U+11655", "U+116C5", "U+11735", "U+118E5",
        "U+11955", "U+11C55", "U+11D55", "U+11DA5", "U+16A65", "U+16AC5", "U+16B55",
        "U+1D7D3", "U+1D7DD", "U+1D7E7", "U+1D7F1", "U+1D7FB", "U+1E145", "U+1E2F5",
        "U+1E955", "U+1FBF5" },
      {
        "6", "U+0666", "U+06F6", "U+07C6", "U+096C", "U+09EC", "U+0A6C", "U+0AEC",
        "U+0B6C", "U+0BEC", "U+0C6C", "U+0CEC", "U+0D6C", "U+0DEC", "U+0E56",
        "U+0ED6", "U+0F26", "U+1046", "U+1096", "U+17E6", "U+1816", "U+194C",
        "U+19D6", "U+1A86", "U+1A96", "U+1B56", "U+1BB6", "U+1C46", "U+1C56",
        "U+A626", "U+A8D6", "U+A906", "U+A9D6", "U+A9F6", "U+AA56", "U+ABF6",
        "U+FF16", "U+104A6", "U+10D36", "U+1106C", "U+110F6", "U+1113C", "U+111D6",
        "U+112F6", "U+11456", "U+114D6", "U+11656", "U+116C6", "U+11736", "U+118E6",
        "U+11956", "U+11C56", "U+11D56", "U+11DA6", "U+16A66", "U+16AC6", "U+16B56",
        "U+1D7D4", "U+1D7DE", "U+1D7E8", "U+1D7F2", "U+1D7FC", "U+1E146", "U+1E2F6",
        "U+1E956", "U+1FBF6" },
      {
        "7", "U+0667", "U+06F7", "U+07C7", "U+096D", "U+09ED", "U+0A6D", "U+0AED",
        "U+0B6D", "U+0BED", "U+0C6D", "U+0CED", "U+0D6D", "U+0DED", "U+0E57",
        "U+0ED7", "U+0F27", "U+1047", "U+1097", "U+17E7", "U+1817", "U+194D",
        "U+19D7", "U+1A87", "U+1A97", "U+1B57", "U+1BB7", "U+1C47", "U+1C57",
        "U+A627", "U+A8D7", "U+A907", "U+A9D7", "U+A9F7", "U+AA57", "U+ABF7",
        "U+FF17", "U+104A7", "U+10D37", "U+1106D", "U+110F7", "U+1113D", "U+111D7",
        "U+112F7", "U+11457", "U+114D7", "U+11657", "U+116C7", "U+11737", "U+118E7",
        "U+11957", "U+11C57", "U+11D57", "U+11DA7", "U+16A67", "U+16AC7", "U+16B57",
        "U+1D7D5", "U+1D7DF", "U+1D7E9", "U+1D7F3", "U+1D7FD", "U+1E147", "U+1E2F7",
        "U+1E957", "U+1FBF7" },
      {
        "8", "U+0668", "U+06F8", "U+07C8", "U+096E", "U+09EE", "U+0A6E", "U+0AEE",
        "U+0B6E", "U+0BEE", "U+0C6E", "U+0CEE", "U+0D6E", "U+0DEE", "U+0E58",
        "U+0ED8", "U+0F28", "U+1048", "U+1098", "U+17E8", "U+1818", "U+194E",
        "U+19D8", "U+1A88", "U+1A98", "U+1B58", "U+1BB8", "U+1C48", "U+1C58",
        "U+A628", "U+A8D8", "U+A908", "U+A9D8", "U+A9F8", "U+AA58", "U+ABF8",
        "U+FF18", "U+104A8", "U+10D38", "U+1106E", "U+110F8", "U+1113E", "U+111D8",
        "U+112F8", "U+11458", "U+114D8", "U+11658", "U+116C8", "U+11738", "U+118E8",
        "U+11958", "U+11C58", "U+11D58", "U+11DA8", "U+16A68", "U+16AC8", "U+16B58",
        "U+1D7D6", "U+1D7E0", "U+1D7EA", "U+1D7F4", "U+1D7FE", "U+1E148", "U+1E2F8",
        "U+1E958", "U+1FBF8" },
      {
        "9", "U+0669", "U+06F9", "U+07C9", "U+096F", "U+09EF", "U+0A6F", "U+0AEF",
        "U+0B6F", "U+0BEF", "U+0C6F", "U+0CEF", "U+0D6F", "U+0DEF", "U+0E59",
        "U+0ED9", "U+0F29", "U+1049", "U+1099", "U+17E9", "U+1819", "U+194F",
        "U+19D9", "U+1A89", "U+1A99", "U+1B59", "U+1BB9", "U+1C49", "U+1C59",
        "U+A629", "U+A8D9", "U+A909", "U+A9D9", "U+A9F9", "U+AA59", "U+ABF9",
        "U+FF19", "U+104A9", "U+10D39", "U+1106F", "U+110F9", "U+1113F", "U+111D9",
        "U+112F9", "U+11459", "U+114D9", "U+11659", "U+116C9", "U+11739", "U+118E9",
        "U+11959", "U+11C59", "U+11D59", "U+11DA9", "U+16A69", "U+16AC9", "U+16B59",
        "U+1D7D7", "U+1D7E1", "U+1D7EB", "U+1D7F5", "U+1D7FF", "U+1E149", "U+1E2F9",
        "U+1E959", "U+1FBF9" }
    >>

Digits == UNION { DecimalDigits[k] : k \in 1..10 }

DigitVal(c) == CHOOSE k \in 0..9 : c \in DecimalDigits[k + 1]

\* the least index of s whose element is not in ws (Len(s) + 1 if there is none)
FirstOutside(s, ws) ==
    IF \A i \in 1..Len(s) : s[i] \in ws THEN Len(s) + 1
    ELSE CHOOSE i \in 1..Len(s) :
           s[i] \notin ws /\ \A j \in 1..(i - 1) : s[j] \in ws

\* the greatest index of s whose element is not in ws (0 if there is none)
LastOutside(s, ws) ==
    IF \A i \in 1..Len(s) : s[i] \in ws THEN 0
    ELSE CHOOSE i \in 1..Len(s) :
           s[i] \notin ws /\ \A j \in (i + 1)..Len(s) : s[j] \in ws

\* s without its leading and trailing elements in ws
Trim(s, ws) == SubSeq(s, FirstOutside(s, ws), LastOutside(s, ws))

\* str.lstrip()
LStrip(s) == SubSeq(s, FirstOutside(s, Whitespace), Len(s))

\* str.rstrip()
RStrip(s) == SubSeq(s, 1, LastOutside(s, Whitespace))

\* str.strip(): leading and trailing whitespace removed, the interior kept
Strip(s) == RStrip(LStrip(s))

\* sys.get_int_max_str_digits(): int() refuses a literal of more digits
IntMaxStrDigits == 4300

\* A Python int, which has no bound: its sign and its decimal digits (values
\* 0..9), most significant first, without leading zeros; zero is <<0>>, not
\* negative.
PyInt(neg, digits) == [neg |-> neg, digits |-> digits]

RECURSIVE NatDigits(_)
NatDigits(n) == IF n < 10 THEN <<n>> ELSE Append(NatDigits(n \div 10), n % 10)

\* the Python int of an integer of the model
PyIntOf(n) == IF n < 0 THEN PyInt(TRUE, NatDigits(0 - n)) ELSE PyInt(FALSE, NatDigits(n))

NotUnderscore(c) == c # "_"

\* the digits of a literal, underscores left out
DigitsOnly(s) == SelectSeq(s, NotUnderscore)

\* the value of a digit string as the digits of a Python int: each digit's
\* value, the underscores int() allows between digits and the leading zeros
\* left out
DigitsVal(s) ==
    LET d == DigitsOnly(s)
        v == [i \in 1..Len(d) |-> DigitVal(d[i])]
    IN IF \A i \in 1..Len(v) : v[i] = 0 THEN <<0>>
       ELSE SubSeq(v, FirstOutside(v, {0}), Len(v))

\* an int() literal without its sign: digits, with single underscores allowed
\* between two digits, and no more than IntMaxStrDigits digits
AllDigits(s) ==
    /\ Len(s) > 0
    /\ \A i \in 1..Len(s) : s[i] \in Digits \cup {"_"}
    /\ s[1] \in Digits /\ s[Len(s)] \in Digits
    /\ \A i \in 1..(Len(s) - 1) : ~(s[i] = "_" /\ s[i + 1] = "_")
    /\ Len(DigitsOnly(s)) <= IntMaxStrDigits

\* Python's int(str): surrounding whitespace is dropped, then an optional sign
\* and a digit string (single underscores between digits allowed); any other
\* text raises ValueError (ok = FALSE).
IntOfText(s) ==
    LET t == Trim(s, IntWhitespace)
        signed == Len(t) > 0 /\ Head(t) \in {"-", "+"}
        body == IF signed THEN Tail(t) ELSE t
    IN IF AllDigits(body)
       THEN LET d == DigitsVal(body)
            IN [ok |-> TRUE,
                val |-> PyInt(signed /\ Head(t) = "-" /\ d # <<0>>, d)]
       ELSE [ok |-> FALSE, val |-> PyIntOf(0)]

\* reqparse Argument.convert with type=int: int(value, name, op) and
\* int(value, name) raise TypeError, so the value is int(value); a float is
\* truncated
py_int(v) ==
    CASE v.kind = "text" -> IntOfText(v.text)
      [] v.kind = "int"  -> [ok |-> TRUE, val |-> PyIntOf(v.int)]
      [] v.kind = "float" -> [ok |-> TRUE, val |-> PyIntOf(v.int)]
      [] v.kind = "bool" -> [ok |-> TRUE, val |-> PyIntOf(IF v.bool THEN 1 ELSE 0)]

\* reqparse Argument.convert with type=bool: bool(value); a str is true
\* exactly when it is non-empty
py_bool(v) ==
    CASE v.kind = "text" -> Len(v.text) > 0
      [] v.kind = "int"  -> v.int # 0
      [] v.kind = "float" -> v.int # 0 \/ v.frac # 0
      [] v.kind = "bool" -> v.bool

(* --------------------- Connection (collaborator) ---------------------- *)

RECURSIVE Join(_, _)
\* concatenate.join(fragments)
Join(frags, sep) ==
    IF Len(frags) = 0 THEN <<>>
    ELSE IF Len(frags) = 1 THEN frags[1]
    ELSE frags[1] \o sep \o Join(Tail(frags), sep)

\* Connection.send(*args, ending, concatenate): the string put on the serial line
Connection_send_string(frags, ending, concatenate) ==
    Join(frags, concatenate) \o ending

RECURSIVE ReadUntil(_, _)
\* the part of s before the first occurrence of the terminator (all of s if none)
ReadUntil(s, term) ==
    IF Len(term) = 0 \/ Len(s) < Len(term) THEN s
    ELSE IF SubSeq(s, 1, Len(term)) = term THEN <<>>
    ELSE <<Head(s)>> \o ReadUntil(Tail(s), term)

\* Connection.receive_str(num_before=0, read_until=None, strip=True): an argument
\* the caller does not pass (None here) takes the signature's default
Connection_receive_str_args(num_before, read_until, strip) ==
    [num_before |-> IF IsNone(num_before) THEN PyIntOf(0) ELSE Get(num_before),
     read_until |-> IF IsNone(read_until) THEN None ELSE Get(read_until),
     strip |-> IF IsNone(strip) THEN TRUE ELSE Get(strip)]

RECURSIVE SmallValue(_)
SmallValue(digits) ==
    IF Len(digits) = 0 THEN 0
    ELSE 10 * SmallValue(SubSeq(digits, 1, Len(digits) - 1)) + digits[Len(digits)]

\* the offset n into a queue of len records: Some(n) when 0 <= n < len, None
\* when there is no such record
QueueOffset(n, len) ==
    IF n.neg \/ Len(n.digits) > 9 THEN None
    ELSE IF SmallValue(n.digits) < len THEN Some(SmallValue(n.digits)) ELSE None

\* Connection.receive_str: Some([ts, str]) for a (timestamp, string) tuple, None
\* for Python's None (no such record)
Connection_receive_str(queue, num_before, read_until, strip) ==
    LET a == Connection_receive_str_args(num_before, read_until, strip)
        off == QueueOffset(a.num_before, Len(queue))
    IN IF IsNone(off) THEN None
       ELSE LET rec == queue[Len(queue) - Get(off)]
                cut == IF IsNone(a.read_until) THEN rec.str
                       ELSE ReadUntil(rec.str, Get(a.read_until))
            IN Some([ts |-> rec.ts, str |-> IF a.strip THEN Strip(cut) ELSE cut])

RcvStrings == { <<"SP", "a", "SP", "b", "LF">>, <<"c">> }

(* ------------------------------ requests ------------------------------ *)

Fragments == { <<"a">>, <<"b", "SP">> }

FragLists == UNION { [1..n -> Fragments] : n \in 0..MaxFrags }

EndingValues == { None, Some(<<>>), Some(<<"LF">>) }

ConcatenateValues == { None, Some(<<"-">>) }

NumBeforeValues ==
    { None, Some(Text(<<"1">>)), Some(Text(<<"-", "1">>)), Some(Text(<<"U+00A0", "1", "_", "U+0663">>)),
      Some(Text(<<"4", "2", "9", "4", "9", "6", "7", "2", "9", "6">>)),
      Some(Text(<<"x">>)), Some(Text(<<>>)), Some(JInt(1)), Some(JFloat(1, 5)) }

ReadUntilValues == { None, Some(<<"b">>) }

StripValues ==
    { None, Some(Text(<<"f", "a", "l", "s", "e">>)), Some(Text(<<>>)),
      Some(JBool(TRUE)), Some(JBool(FALSE)) }

NoRequest ==
    [method |-> "none", path |-> "none", data |-> <<>>, ending |-> None,
     concatenate |-> None, num_before |-> None, read_until |-> None,
     strip |-> None, extra |-> FALSE]

SendRequests ==
    { [NoRequest EXCEPT !.method = "POST", !.path = "/send", !.data = d,
                        !.ending = e, !.concatenate = c, !.extra = x] :
      d \in FragLists, e \in EndingValues, c \in ConcatenateValues, x \in BOOLEAN }

ReceiveGetRequests ==
    { [NoRequest EXCEPT !.method = "GET", !.path = "/receive", !.extra = x] :
      x \in BOOLEAN }

ReceivePostRequests ==
    { [NoRequest EXCEPT !.method = "POST", !.path = "/receive", !.num_before = n,
                        !.read_until = r, !.strip = s, !.extra = x] :
      n \in NumBeforeValues, r \in ReadUntilValues, s \in StripValues, x \in BOOLEAN }

(* ----------------------------- responses ------------------------------ *)

Response(status, keys, message, timestamp, data) ==
    [status |-> status, keys |-> keys, message |-> message,
     timestamp |-> timestamp, data |-> data]

\* flask_restful.abort(code, message=...): a JSON body {"message": ...}
Abort(status, message) == Response(status, {"message"}, message, None, None)

NoCall ==
    [method |-> "none", data |-> <<>>, ending |-> <<>>, concatenate |-> <<>>,
     num_before |-> None, read_until |-> None, strip |-> None]

(* ------------------------ Builtins.__init__ ---------------------------- *)

\* RestApiHandler.add_endpoint(path)(resource): the path is added to the handler
RestApiHandler_add_endpoint(eps, path) == Append(eps, path)

\* mutant: one of the endpoints the module documents is registered as well
Builtins_add_all_extra(eps) ==
    RestApiHandler_add_endpoint(
        RestApiHandler_add_endpoint(RestApiHandler_add_endpoint(eps, "/send"),
                                    "/receive"), "/get")

\* Builtins._add_all
Builtins_add_all(eps) ==
    RestApiHandler_add_endpoint(RestApiHandler_add_endpoint(eps, "/send"), "/receive")

\* the endpoints a handler may already hold when Builtins is constructed on it
InitialEndpoints == { <<>>, <<"/hello">> }

\* what the connection gave back to the handler
Returned(kind, bool, rec) == [kind |-> kind, bool |-> bool, rec |-> rec]

NoReturn == Returned("none", FALSE, None)

Raised == Returned("raise", FALSE, None)

Builtins_init ==
    /\ built = "none"
    /\ IF ~conn_is_connection
       THEN /\ built' = "TypeError"
            /\ UNCHANGED endpoints
       ELSE /\ built' = "ok"
            /\ endpoints' = Builtins_add_all(endpoints)
    /\ UNCHANGED <<conn_is_connection, rcv_queue, line_out, request, calls,
                   returned, response>>

Registered(path) == \E i \in 1..Len(endpoints) : endpoints[i] = path

(* ------------------------- _Sending (POST /send) ----------------------- *)

\* mutant: a bare newline as the default ending
DefaultEnding_newline == <<"LF">>

DefaultEnding == <<"CR", "LF">>

DefaultConcatenate == <<"SP">>

\* _Sending.parser.parse_args(strict=True)
Sending_parser(r) ==
    IF Len(r.data) = 0
    THEN [ok |-> FALSE, message |-> "data: Data the serial port should send; is required",
          data |-> <<>>, ending |-> <<>>, concatenate |-> <<>>]
    ELSE IF r.extra
    THEN [ok |-> FALSE, message |-> "Unknown arguments",
          data |-> <<>>, ending |-> <<>>, concatenate |-> <<>>]
    ELSE [ok |-> TRUE, message |-> "",
          data |-> r.data,
          ending |-> IF IsNone(r.ending) THEN DefaultEnding ELSE Get(r.ending),
          concatenate |-> IF IsNone(r.concatenate) THEN DefaultConcatenate
                          ELSE Get(r.concatenate)]

\* mutant: a send that returned False is tried again
Sending_calls_retry(args, res) ==
    LET c == [NoCall EXCEPT !.method = "send", !.data = args.data,
                            !.ending = args.ending, !.concatenate = args.concatenate]
    IN IF res.kind = "bool" /\ ~res.bool THEN <<c, c>> ELSE <<c>>

\* conn.send(*args["data"], ending=args["ending"], concatenate=args["concatenate"]),
\* called once whatever it returns
Sending_calls(args, res) ==
    << [NoCall EXCEPT !.method = "send", !.data = args.data, !.ending = args.ending,
                      !.concatenate = args.concatenate] >>

\* mutant: the result of conn.send is not looked at
Sending_respond_always_ok(res) == Response(200, {"message"}, "OK", None, None)

\* the response for the value conn.send returned
Sending_respond(res) ==
    IF ~res THEN Abort(502, "Failed to send")
    ELSE Response(200, {"message"}, "OK", None, None)

\* what conn.send may do: return True, return False, raise
SendOutcomes == { Returned("bool", TRUE, None), Returned("bool", FALSE, None), Raised }

Sending_post(r, res) ==
    /\ built = "ok" /\ Registered("/send")
    /\ request' = r
    /\ LET args == Sending_parser(r) IN
       IF ~args.ok
       THEN /\ calls' = <<>>
            /\ returned' = NoReturn
            /\ response' = Some(Abort(400, args.message))
            /\ line_out' = None
       ELSE /\ calls' = Sending_calls(args, res)
            /\ returned' = res
            /\ line_out' = IF res.kind = "bool" /\ res.bool
                           THEN Some(Connection_send_string(args.data, args.ending,
                                                            args.concatenate))
                           ELSE None
            /\ response' = IF res.kind = "raise" THEN None
                           ELSE Some(Sending_respond(res.bool))
    /\ UNCHANGED <<conn_is_connection, endpoints, built, rcv_queue>>

(* ------------------- _Receiving (GET, POST /receive) ------------------- *)

\* mutant: nothing received is answered as an error
Receiving_respond_not_found(res) ==
    IF IsNone(res) THEN Abort(404, "Nothing received")
    ELSE Response(200, {"message", "timestamp", "data"}, "OK",
                  Some(Get(res).ts), Some(Get(res).str))

\* the response for the value conn.receive_str returned
Receiving_respond(res) ==
    Response(200, {"message", "timestamp", "data"}, "OK",
             IF IsNone(res) THEN None ELSE Some(Get(res).ts),
             IF IsNone(res) THEN None ELSE Some(Get(res).str))

\* what conn.receive_str does with the call: return a tuple or None, or raise
ReceiveOutcome(call, raise) ==
    IF raise THEN Raised
    ELSE Returned("record", FALSE,
                  Connection_receive_str(rcv_queue, call.num_before, call.read_until,
                                         call.strip))

\* mutant: GET passes the POST parser's default for strip
Receiving_get_calls_raw ==
    << [NoCall EXCEPT !.method = "receive_str", !.strip = Some(FALSE)] >>

\* conn.receive_str(): no argument is passed
Receiving_get_calls == << [NoCall EXCEPT !.method = "receive_str"] >>

Receiving_get(r, raise) ==
    /\ built = "ok" /\ Registered("/receive")
    /\ request' = r
    /\ calls' = Receiving_get_calls
    /\ returned' = ReceiveOutcome(calls'[1], raise)
    /\ response' = IF returned'.kind = "raise" THEN None
                   ELSE Some(Receiving_respond(returned'.rec))
    /\ line_out' = None
    /\ UNCHANGED <<conn_is_connection, endpoints, built, rcv_queue>>

\* _Receiving.parser.parse_args(strict=True)
Receiving_parser(r) ==
    LET n == IF IsNone(r.num_before) THEN [ok |-> TRUE, val |-> PyIntOf(0)]
             ELSE py_int(Get(r.num_before))
    IN IF ~n.ok
       THEN [ok |-> FALSE, message |-> "num_before: Which receive data to return",
             num_before |-> PyIntOf(0), read_until |-> None, strip |-> FALSE]
       ELSE IF r.extra
       THEN [ok |-> FALSE, message |-> "Unknown arguments",
             num_before |-> PyIntOf(0), read_until |-> None, strip |-> FALSE]
       ELSE [ok |-> TRUE, message |-> "",
             num_before |-> n.val,
             read_until |-> r.read_until,
             strip |-> IF IsNone(r.strip) THEN FALSE ELSE py_bool(Get(r.strip))]

\* mutant: num_before is parsed but not passed on
Receiving_post_calls_no_offset(args) ==
    << [NoCall EXCEPT !.method = "receive_str",
                      !.read_until = Some(args.read_until),
                      !.strip = Some(args.strip)] >>

\* conn.receive_str(num_before=args["num_before"], read_until=args["read_until"],
\*                  strip=args["strip"])
Receiving_post_calls(args) ==
    << [NoCall EXCEPT !.method = "receive_str", !.num_before = Some(args.num_before),
                      !.read_until = Some(args.read_until),
                      !.strip = Some(args.strip)] >>

Receiving_post(r, raise) ==
    /\ built = "ok" /\ Registered("/receive")
    /\ request' = r
    /\ LET args == Receiving_parser(r) IN
       IF ~args.ok
       THEN /\ calls' = <<>>
            /\ returned' = NoReturn
            /\ response' = Some(Abort(400, args.message))
       ELSE /\ calls' = Receiving_post_calls(args)
            /\ returned' = ReceiveOutcome(calls'[1], raise)
            /\ response' = IF returned'.kind = "raise" THEN None
                           ELSE Some(Receiving_respond(returned'.rec))
    /\ line_out' = None
    /\ UNCHANGED <<conn_is_connection, endpoints, built, rcv_queue>>

(* ------------------------- the serial line ----------------------------- *)

\* the connection's reader puts a received string, with its time, on the queue;
\* no request is handled in this step
SerialReceive(s) ==
    /\ conn_is_connection
    /\ Len(rcv_queue) < MaxQueue
    /\ rcv_queue' = Append(rcv_queue, [ts |-> Len(rcv_queue) + 1, str |-> s])
    /\ request' = NoRequest
    /\ calls' = <<>>
    /\ returned' = NoReturn
    /\ response' = None
    /\ line_out' = None
    /\ UNCHANGED <<conn_is_connection, endpoints, built>>

(* --------------------------- specification ----------------------------- *)

Init ==
    /\ conn_is_connection \in BOOLEAN
    /\ endpoints \in InitialEndpoints
    /\ built = "none"
    /\ rcv_queue = <<>>
    /\ line_out = None
    /\ request = NoRequest
    /\ calls = <<>>
    /\ returned = NoReturn
    /\ response = None

Next ==
    \/ Builtins_init
    \/ \E r \in SendRequests, res \in SendOutcomes : Sending_post(r, res)
    \/ \E r \in ReceiveGetRequests, raise \in BOOLEAN : Receiving_get(r, raise)
    \/ \E r \in ReceivePostRequests, raise \in BOOLEAN : Receiving_post(r, raise)
    \/ \E s \in RcvStrings : SerialReceive(s)

Spec == Init /\ [][Next]_vars

(* ------------------------------ claims -------------------------------- *)
(* What a request asks for, read off the request itself.                   *)

OnSend == request.method = "POST" /\ request.path = "/send"

OnReceiveGet == request.method = "GET" /\ request.path = "/receive"

OnReceivePost == request.method = "POST" /\ request.path = "/receive"

ValidSend == Len(request.data) >= 1 /\ ~request.extra

\* the texts among the requests' num_before that write an integer: 1, -1, 13
\* (after a no-break space, with an underscore and an Arabic-Indic three) and 2^32
IntegerTexts ==
    { <<"1">>, <<"-", "1">>, <<"U+00A0", "1", "_", "U+0663">>,
      <<"4", "2", "9", "4", "9", "6", "7", "2", "9", "6">> }

NumBeforeIsInteger ==
    \/ request.num_before = None
    \/ Get(request.num_before).kind = "int"
    \/ /\ Get(request.num_before).kind = "text"
       /\ Get(request.num_before).text \in IntegerTexts

One == [neg |-> FALSE, digits |-> <<1>>]

\* the integer the client wrote as num_before (0 when it wrote none), as sign and
\* decimal digits
NumBeforeAsked ==
    IF request.num_before = None THEN [neg |-> FALSE, digits |-> <<0>>]
    ELSE LET v == Get(request.num_before)
         IN IF v.kind = "int" /\ v.int = 1 THEN One
            ELSE CASE v.text = <<"1">> -> One
                   [] v.text = <<"-", "1">> -> [neg |-> TRUE, digits |-> <<1>>]
                   [] v.text = <<"U+00A0", "1", "_", "U+0663">> ->
                        [neg |-> FALSE, digits |-> <<1, 3>>]
                   [] v.text = <<"4", "2", "9", "4", "9", "6", "7", "2", "9", "6">> ->
                        [neg |-> FALSE, digits |-> <<4, 2, 9, 4, 9, 6, 7, 2, 9, 6>>]
                   [] OTHER -> [neg |-> FALSE, digits |-> <<0>>]

ValidReceivePost == NumBeforeIsInteger /\ ~request.extra

OkBody == Response(200, {"message"}, "OK", None, None)

FailedToSendBody == Response(502, {"message"}, "Failed to send", None, None)

\* C1: a POST /send that passes validation and whose conn.send returns is answered
\* by the result alone: False gives 502 {"message": "Failed to send"} (never 200),
\* True gives 200 {"message": "OK"}.
C1_SendResponseFollowsResult ==
    (OnSend /\ ValidSend /\ returned.kind # "raise") =>
        /\ returned.kind = "bool"
        /\ response = Some(IF returned.bool THEN OkBody ELSE FailedToSendBody)

C1_Witness ==
    /\ OnSend /\ ValidSend
    /\ returned.kind = "bool" /\ ~returned.bool
    /\ response = Some(FailedToSendBody)

AskedEnding == IF request.ending = None THEN <<"CR", "LF">> ELSE Get(request.ending)

AskedConcatenate ==
    IF request.concatenate = None THEN <<"SP">> ELSE Get(request.concatenate)

\* C2: a valid POST /send with N >= 1 fragments hands conn.send the fragments in
\* request order, the ending (CR LF when omitted) and the separator (a space when
\* omitted), and the string sent is the fragments joined by the separator and then
\* the ending; with one fragment the separator has no effect.
C2_SendStringIsJoinPlusEnding ==
    (OnSend /\ ValidSend) =>
        /\ Len(calls) >= 1
        /\ calls[1].method = "send"
        /\ calls[1].data = request.data
        /\ calls[1].ending = AskedEnding
        /\ calls[1].concatenate = AskedConcatenate
        /\ (returned.kind = "bool" /\ returned.bool) =>
              /\ line_out = Some(Join(request.data, AskedConcatenate) \o AskedEnding)
              /\ Len(request.data) = 1 =>
                    line_out = Some(request.data[1] \o AskedEnding)

C2_Witness ==
    /\ OnSend /\ ValidSend
    /\ request.data = << <<"a">>, <<"b", "SP">> >>
    /\ request.ending = None /\ request.concatenate = None
    /\ line_out = Some(<<"a", "SP", "b", "SP", "CR", "LF">>)

Malformed ==
    \/ OnSend /\ Len(request.data) = 0
    \/ OnSend /\ request.extra
    \/ OnReceivePost /\ request.extra
    \/ OnReceivePost /\ ~NumBeforeIsInteger

\* C3: a POST /send without data, a POST /send or POST /receive with an undeclared
\* parameter, and a POST /receive whose num_before is not an integer are answered
\* with a client error (400), and no method of the connection is called.
C3_MalformedNeverReachesConnection ==
    Malformed =>
        /\ calls = <<>>
        /\ returned = NoReturn
        /\ line_out = None
        /\ response # None
        /\ Get(response).status = 400

\* C4: on GET and POST /receive, when conn.receive_str returns, the response is 200
\* with message "OK"; timestamp and data are the two components of the returned
\* tuple, or both null when it returned None.
C4_ReceiveResponseShape ==
    ((OnReceiveGet \/ OnReceivePost) /\ returned.kind = "record") =>
        /\ response # None
        /\ Get(response).status = 200
        /\ Get(response).message = "OK"
        /\ Get(response).keys = {"message", "timestamp", "data"}
        /\ IF returned.rec = None
           THEN Get(response).timestamp = None /\ Get(response).data = None
           ELSE /\ Get(response).timestamp = Some(Get(returned.rec).ts)
                /\ Get(response).data = Some(Get(returned.rec).str)

C4_Witness ==
    /\ OnReceiveGet
    /\ rcv_queue = <<>>
    /\ returned.kind = "record" /\ returned.rec = None
    /\ response = Some(Response(200, {"message", "timestamp", "data"}, "OK", None, None))

LatestReceived == rcv_queue[Len(rcv_queue)]

\* C5: GET /receive asks for the most recent record (offset 0, no terminator) with
\* strip=True, so the data of the response is the latest received string stripped.
C5_GetAsksLatestStripped ==
    OnReceiveGet =>
        /\ Len(calls) = 1
        /\ calls[1].method = "receive_str"
        /\ LET a == Connection_receive_str_args(calls[1].num_before,
                                                calls[1].read_until, calls[1].strip)
           IN /\ a.num_before = [neg |-> FALSE, digits |-> <<0>>]
              /\ a.read_until = None /\ a.strip = TRUE
        /\ (returned.kind = "record" /\ Len(rcv_queue) > 0) =>
              /\ Get(response).timestamp = Some(LatestReceived.ts)
              /\ Get(response).data = Some(Strip(LatestReceived.str))

C5_Witness ==
    /\ OnReceiveGet
    /\ Len(rcv_queue) = 2
    /\ LatestReceived.str = <<"SP", "a", "SP", "b", "LF">>
    /\ response # None
    /\ Get(response).data = Some(<<"a", "SP", "b">>)

\* C6: a valid POST /receive passes num_before and read_until on to
\* conn.receive_str as given, 0 and None when omitted; num_before=1 asks for the
\* second most recent record, no num_before for the most recent.
C6_PostForwardsOffsetAndTerminator ==
    (OnReceivePost /\ ValidReceivePost) =>
        /\ Len(calls) = 1
        /\ calls[1].method = "receive_str"
        /\ calls[1].num_before = Some(NumBeforeAsked)
        /\ calls[1].read_until = Some(request.read_until)
        /\ (returned.kind = "record" /\ Len(rcv_queue) >= 2 /\ NumBeforeAsked = One) =>
              Get(response).timestamp = Some(rcv_queue[Len(rcv_queue) - 1].ts)
        /\ (returned.kind = "record" /\ Len(rcv_queue) >= 1
              /\ request.num_before = None) =>
              Get(response).timestamp = Some(LatestReceived.ts)

C6_Witness ==
    /\ OnReceivePost /\ ValidReceivePost
    /\ request.num_before = Some(Text(<<"1">>))
    /\ Len(rcv_queue) = 2
    /\ calls[1].num_before = Some(One)
    /\ response # None
    /\ Get(response).timestamp = Some(1)

\* what the client wrote as strip is a false value
StripAskedFalse ==
    \/ request.strip = None
    \/ Get(request.strip).kind = "bool" /\ ~Get(request.strip).bool
    \/ Get(request.strip).kind = "text"
         /\ Get(request.strip).text = <<"f", "a", "l", "s", "e">>

\* C7: on a valid POST /receive, a strip that is omitted or false in the request
\* (JSON false, or the text "false") makes the call strip=False.
C7_FalseStripIsNotStripped ==
    (OnReceivePost /\ ValidReceivePost /\ StripAskedFalse) =>
        (Len(calls) = 1 /\ calls[1].strip = Some(FALSE))

\* C8: constructing Builtins either raises TypeError (handler.conn is not a
\* Connection) and adds no endpoint, or adds exactly /send and /receive, once each.
C8_ConstructorOutcomes ==
    /\ built = "none" => endpoints \in InitialEndpoints
    /\ built = "TypeError" => (~conn_is_connection /\ endpoints \in InitialEndpoints)
    /\ built = "ok" =>
          /\ conn_is_connection
          /\ \E before \in InitialEndpoints :
                endpoints = before \o <<"/send", "/receive">>
    /\ built \in {"none", "TypeError", "ok"}
    /\ (~conn_is_connection) => built # "ok"
    /\ built # "none" => ((built = "ok") <=> conn_is_connection)

C8_Witness ==
    /\ built = "ok"
    /\ conn_is_connection
    /\ endpoints = <<"/hello", "/send", "/receive">>

\* the request handled was rejected by the parser
FailedValidation == response # None /\ Get(response).status = 400

\* the request handled is one the parser lets through
Validated ==
    \/ OnSend /\ ValidSend
    \/ OnReceiveGet
    \/ OnReceivePost /\ ValidReceivePost

\* C9: every request to /send or /receive, whatever the connection signals (False,
\* None, or an exception), ends in a response with a status and a JSON body.
\* The handlers catch nothing: when the connection raises, the exception leaves
\* post() or get() and no response is built here.
C9_EveryRequestIsAnswered ==
    (OnSend \/ OnReceiveGet \/ OnReceivePost) =>
        (response # None /\ "message" \in Get(response).keys)

\* C10: a request that passes validation makes exactly one call on the connection
\* (send for POST /send, receive_str for GET and POST /receive), also when send
\* returns False; a request that fails validation makes none.
C10_OneCallPerValidRequest ==
    /\ Validated => ~FailedValidation
    /\ (OnSend /\ ~FailedValidation) => (Len(calls) = 1 /\ calls[1].method = "send")
    /\ ((OnReceiveGet \/ OnReceivePost) /\ ~FailedValidation) =>
          (Len(calls) = 1 /\ calls[1].method = "receive_str")
    /\ FailedValidation => Len(calls) = 0
    /\ request = NoRequest => Len(calls) = 0

C10_Witness ==
    /\ OnSend /\ ValidSend
    /\ returned.kind = "bool" /\ ~returned.bool
    /\ Len(calls) = 1

====
